---- MODULE Spec2Model ----
(***************************************************************************)
(* NimbusVault authentication core: the auth-service (rate limiter, token  *)
(* issuer/verifier, login/register/refresh endpoints) and the shared       *)
(* AuthMiddleware used by the consumer services.                           *)
(*                                                                         *)
(* Time is counted in clock ticks, TicksPerSecond ticks to the second, so  *)
(* that instants inside one second are distinguishable (datetime.utcnow()  *)
(* has sub-second resolution, the exp/iat claims of a token have not).     *)
(* The handlers are `async def` bodies without an await: each runs to      *)
(* completion on the event loop, so each is one atomic action.             *)
(***************************************************************************)
EXTENDS Integers, Sequences, FiniteSets, TLC

\* ---------------------------------------------------------------- bounds
TicksPerSecond == 3
MaxWindows == 2
MaxFine == 2
MaxDenied == 2

\* ------------------------------------------------------ program constants
RATE_LIMIT_WINDOW == 60
RATE_LIMIT_COUNT == 5
ACCESS_TOKEN_EXPIRE_SECONDS == 3600    \* app.py, create_token's default
ACCESS_TOKEN_EXPIRE_MINUTES == 30      \* jwt_utils.py
LOGIN_ACCESS_MINUTES == 30             \* login: timedelta(minutes=30)
LOGIN_REFRESH_DAYS == 7                \* login: timedelta(days=7)
REFRESH_ACCESS_MINUTES == 30           \* refresh: timedelta(minutes=30)

Window == RATE_LIMIT_WINDOW * TicksPerSecond
MaxClock == MaxWindows * Window

\* Client addresses (request.client.host).
IPs == {"10.0.0.1", "10.0.0.2"}
OneIP == {"10.0.0.1"}

\* Request inputs.
Usernames == {"admin", "alice"}
Passwords == {"password", "correct"}
Salts == {"salt1", "salt2"}

VARIABLES
    now,          \* the wall clock, datetime.utcnow(), in ticks
    RATE_LIMIT,   \* dict ip -> list of timestamps (app.py:64)
    recent,       \* history of the bare check_rate_limit calls: per ip, the
                  \* times of its last allowed calls
    denied,       \* likewise: per ip, rejected calls since its last allowed one
    last,         \* the last request made and what came of it
    ALGORITHM,    \* "RS256" with the key files, else "HS256" (app.py:41-51)
    jwt_utils_create_token,  \* TRUE when the jwt_utils helper was importable
    users,        \* legacy store: username -> plaintext password (app.py:59)
    user_store,   \* enhanced store: username -> User (app.py:60)
    next_id,      \* app.py:61
    jar,          \* client side: the tokens a client has kept
    tasks         \* the check_rate_limit calls in progress, statement by
                  \* statement: per task its position and its locals

config == <<ALGORITHM, jwt_utils_create_token>>
stores == <<users, user_store, next_id>>
vars == <<now, RATE_LIMIT, recent, denied, last, ALGORITHM,
          jwt_utils_create_token, users, user_store, next_id, jar, tasks>>

\* ------------------------------------------------------------ dict helpers
EmptyDict == [k \in {} |-> <<>>]

\* dict.get(k, default)
Get(d, k, default) == IF k \in DOMAIN d THEN d[k] ELSE default

\* d[k] = v
Put(d, k, v) == [x \in DOMAIN d \cup {k} |-> IF x = k THEN v ELSE d[x]]

\* ------------------------------------------------------------------ tokens
\* A token as a client holds it: the JWT header's alg, the key that signed it,
\* and the claims. uid 0 stands for "no uid claim", iat -1 for "no iat claim".
\* born and ttl are history, read by no operation: the instant (in ticks) the
\* expiry was computed from, and the time-to-live (in ticks) added to it.
NoToken ==
    [form |-> "absent", alg |-> "", key |-> "", sub |-> "", uid |-> 0,
     exp |-> 0, iat |-> -1, typ |-> "none", born |-> 0, ttl |-> 0]

\* A string that is no JWT at all.
Garbage == [NoToken EXCEPT !.form = "garbage"]

\* The same claims signed by somebody else's key.
Forged(tok) == [tok EXCEPT !.key = "attacker"]

\* Whole seconds of an instant: timegm(dt.utctimetuple()) drops the fraction.
Seconds(ticks) == ticks \div TicksPerSecond

\* timedelta(...) in ticks.
Minutes(m) == m * 60 * TicksPerSecond
Days(d) == d * 24 * 60 * 60 * TicksPerSecond

\* PRIVATE_KEY / PUBLIC_KEY: the two halves of one RSA pair, or one shared
\* secret in the fallback.
PRIVATE_KEY == IF ALGORITHM = "RS256" THEN "rsa-pair" ELSE "JWT_SECRET"
PUBLIC_KEY == IF ALGORITHM = "RS256" THEN "rsa-pair" ELSE "JWT_SECRET"

\* create_token(data, expires, refresh): `expires` in ticks (None is the
\* default of ACCESS_TOKEN_EXPIRE_SECONDS), t1 and t2 the two utcnow() reads.
\* jwt.encode turns the datetimes exp and iat into whole seconds.
create_token(data, expires, refresh, t1, t2) ==
    [form |-> "jwt", alg |-> ALGORITHM, key |-> PRIVATE_KEY,
     sub |-> data.sub, uid |-> data.uid,
     exp |-> Seconds(t1 + expires), iat |-> Seconds(t2),
     typ |-> IF refresh THEN "refresh" ELSE "none",
     born |-> t1, ttl |-> expires]

DefaultExpires == ACCESS_TOKEN_EXPIRE_SECONDS * TicksPerSecond

\* jwt_utils.create_token(data): HS256 under jwt_utils.SECRET_KEY, no iat.
jwt_utils_create(data, t) ==
    [form |-> "jwt", alg |-> "HS256", key |-> "secret",
     sub |-> data.sub, uid |-> data.uid,
     exp |-> Seconds(t + Minutes(ACCESS_TOKEN_EXPIRE_MINUTES)), iat |-> -1,
     typ |-> "none", born |-> t, ttl |-> Minutes(ACCESS_TOKEN_EXPIRE_MINUTES)]

\* The legacy paths: jwt_utils when importable, else create_token(token_data).
legacy_token(data, t1, t2) ==
    IF jwt_utils_create_token
    THEN jwt_utils_create(data, t1)
    ELSE create_token(data, DefaultExpires, FALSE, t1, t2)

\* jose's exp check: expired when exp < the whole seconds of now.
jose_expired_early(exp, n) == exp <= Seconds(n)
jose_expired(exp, n) == exp < Seconds(n)

\* jwt.decode(token, PUBLIC_KEY, algorithms=[ALGORITHM]): why it raises, or
\* "none".
jose_decode_error(token, n) ==
    IF token.form # "jwt" THEN "malformed"
    ELSE IF token.alg # ALGORITHM THEN "algorithm"
    ELSE IF token.key # PUBLIC_KEY THEN "signature"
    ELSE IF jose_expired(token.exp, n) THEN "expired"
    ELSE "none"

wrong_type_unchecked(token, refresh) == FALSE

\* if refresh and payload.get('type') != 'refresh': raise JWTError
wrong_type(token, refresh) == refresh /\ token.typ # "refresh"

\* verify_token(token, refresh) at time n: the JWTError it logs ("none" when
\* it returns the payload); every error surfaces as 401 'Invalid token'.
verify_token_error(token, refresh, n) ==
    IF jose_decode_error(token, n) # "none" THEN jose_decode_error(token, n)
    ELSE IF wrong_type(token, refresh) THEN "type"
    ELSE "none"

\* ---------------------------------------------------------------- requests
\* The Authorization header of a request.
NoHeader == [scheme |-> "none", token |-> NoToken]
Bearer(tok) == [scheme |-> "bearer", token |-> tok]
BearerEmpty == [scheme |-> "bearer", token |-> NoToken]   \* "Bearer "
Basic == [scheme |-> "basic", token |-> NoToken]

\* `if token` / `if not token`: None and '' are both false.
Truthy(tok) == tok.form # "absent"

\* get_token_from_request: a bearer header decides, even an empty one.
get_token_from_request(header, cookie) ==
    IF header.scheme = "bearer" THEN header.token ELSE cookie

\* hash_password / verify_password (bcrypt: a fresh salt per hash).
hash_password(password, salt) == [salt |-> salt, pw |-> password]
verify_password_any(plain, hashed) == TRUE
verify_password(plain, hashed) == hashed.pw = plain

NoUser == [id |-> 0, username |-> "", password_hash |-> hash_password("", "")]

\* The record of a request: what was asked, when, and the response.
NoRequest ==
    [op |-> "none", ip |-> "", at |-> 0, status |-> 0, pre |-> EmptyDict,
     deniedBefore |-> 0,
     after |-> "",           \* the request that came before this one
     username |-> "", password |-> "", uid |-> 0, ttl |-> 0,
     header |-> NoHeader, cookie |-> NoToken, rcookie |-> NoToken,
     route |-> "",
     detail |-> "",          \* the response's detail / message
     error |-> "none",       \* what the service logged about the token
     consulted |-> FALSE,    \* user_store / users were looked up
     access |-> NoToken,     \* body: access_token
     refresh |-> NoToken,    \* body: refresh_token
     token |-> NoToken,      \* body: token (legacy)
     setcookie |-> {},       \* cookies set on the response
     delcookie |-> {},       \* cookies deleted on the response
     user |-> NoToken,       \* the payload handed to the handler
     handled |-> FALSE]      \* the gate called call_next

\* ------------------------------------------------------------ rate limiter
\* (now - t).total_seconds() < RATE_LIMIT_WINDOW
InWindow(t, n) == (n - t) < RATE_LIMIT_WINDOW * TicksPerSecond

\* timestamps = [t for t in RATE_LIMIT.get(ip, []) if ... < RATE_LIMIT_WINDOW]
rate_limit_pruned(ip, n, table) ==
    SelectSeq(Get(table, ip, <<>>), LAMBDA t : InWindow(t, n))

rate_limit_exceeded_off_by_one(timestamps) == Len(timestamps) > RATE_LIMIT_COUNT

\* if len(timestamps) >= RATE_LIMIT_COUNT: raise HTTPException(429)
rate_limit_exceeded(timestamps) == Len(timestamps) >= RATE_LIMIT_COUNT

rate_limit_store_shared(table, ip, timestamps) ==
    [x \in IPs |-> timestamps]

\* RATE_LIMIT[ip] = timestamps
rate_limit_store(table, ip, timestamps) == Put(table, ip, timestamps)

check_rate_limit_raises(ip, n, table) ==
    rate_limit_exceeded(rate_limit_pruned(ip, n, table))

check_rate_limit_table_recording_rejects(ip, n, table) ==
    rate_limit_store(table, ip, Append(rate_limit_pruned(ip, n, table), n))

\* The table after check_rate_limit(ip) at time n: untouched when it raises.
check_rate_limit_table(ip, n, table) ==
    IF check_rate_limit_raises(ip, n, table)
    THEN table
    ELSE rate_limit_store(table, ip, Append(rate_limit_pruned(ip, n, table), n))

\* ---------------------------------------------------------------- history
Remembered == RATE_LIMIT_COUNT + 1

LastN(s, n) == IF Len(s) <= n THEN s ELSE SubSeq(s, Len(s) - n + 1, Len(s))

Min(a, b) == IF a < b THEN a ELSE b

\* The history a check_rate_limit(ip) call at `now` leaves behind.
RateHistory(ip) ==
    IF check_rate_limit_raises(ip, now, RATE_LIMIT)
    THEN /\ recent' = recent
         /\ denied' = [denied EXCEPT ![ip] = Min(@ + 1, MaxDenied)]
    ELSE /\ recent' = [recent EXCEPT ![ip] = LastN(Append(@, now), Remembered)]
         /\ denied' = [denied EXCEPT ![ip] = 0]

\* ----------------------------------------------------------------- actions
EmptyJar == [access_token |-> NoToken, refresh_token |-> NoToken,
             bearer |-> NoToken]

\* The requests the server can have in hand at once.
Tasks == {"t1", "t2"}

\* A task that is not in a call: no request, or one that was answered.
IdleTask == [pc |-> "idle", ip |-> "", now |-> 0, timestamps |-> <<>>]

Init ==
    /\ now = 0
    /\ RATE_LIMIT = EmptyDict
    /\ recent = [ip \in IPs |-> <<>>]
    /\ denied = [ip \in IPs |-> 0]
    /\ last = NoRequest
    /\ ALGORITHM \in {"RS256", "HS256"}
    /\ jwt_utils_create_token \in BOOLEAN
    /\ users = [u \in {"admin"} |-> "password"]
    /\ user_store = [u \in {} |-> NoUser]
    /\ next_id = 1
    /\ jar = EmptyJar
    /\ tasks = [t \in Tasks |-> IdleTask]

\* Time passes: a tick, or all but a tick of a rate-limit window.
Tick(d) ==
    /\ now + d <= MaxClock
    /\ d = 1 => now % (Window - 1) < MaxFine
    /\ now' = now + d
    /\ UNCHANGED <<RATE_LIMIT, recent, denied, tasks, last, config, stores, jar>>

\* A bare call of check_rate_limit(ip).
CallCheckRateLimit(ip) ==
    /\ RATE_LIMIT' = check_rate_limit_table(ip, now, RATE_LIMIT)
    /\ RateHistory(ip)
    /\ last' = [NoRequest EXCEPT
                  !.op = "check_rate_limit", !.ip = ip, !.at = now,
                  !.status = IF check_rate_limit_raises(ip, now, RATE_LIMIT)
                             THEN 429 ELSE 200,
                  !.pre = RATE_LIMIT,
                  !.deniedBefore = denied[ip]]
    /\ UNCHANGED <<now, config, stores, jar, tasks>>

NextRate ==
    \/ \E d \in {1, Window - 1} : Tick(d)
    \/ \E ip \in OneIP : CallCheckRateLimit(ip)

SpecRate == Init /\ [][NextRate]_vars

NextRate2 ==
    \/ Tick(Window - 1)
    \/ \E ip \in IPs : CallCheckRateLimit(ip)

SpecRate2 == Init /\ [][NextRate2]_vars

\* --------------------------------------------- check_rate_limit, concurrently
\* The same function taken statement by statement, for requests that are in
\* the server at the same time. uvicorn.run(app) serves them from one event
\* loop; the handlers that call check_rate_limit are `async def`, so the call
\* runs on the loop, and the loop takes up another request only where the
\* running one awaits.
check_rate_limit_awaits_after_read(pc) == pc \in {"read", "checked"}

\* check_rate_limit is a plain `def` with no await in it: it gives way nowhere.
check_rate_limit_awaits(pc) == FALSE

\* The event loop can run task t: no other task is inside the call, other
\* than at an await.
Runnable(t) ==
    \A u \in Tasks \ {t} :
        tasks[u].pc \in {"idle", "arrived"} \/ check_rate_limit_awaits(tasks[u].pc)

\* A request from ip has arrived and its handler is scheduled.
arrive(t, ip) ==
    /\ tasks[t].pc = "idle"
    /\ tasks' = [tasks EXCEPT ![t] = [IdleTask EXCEPT !.pc = "arrived", !.ip = ip]]
    /\ UNCHANGED <<now, RATE_LIMIT, recent, denied, last, config, stores, jar>>

\* now = datetime.utcnow(); timestamps = RATE_LIMIT.get(ip, [])
task_read(t) ==
    /\ tasks[t].pc = "arrived"
    /\ Runnable(t)
    /\ tasks' = [tasks EXCEPT ![t] =
                   [@ EXCEPT !.pc = "read", !.now = now,
                             !.timestamps = Get(RATE_LIMIT, tasks[t].ip, <<>>)]]
    /\ UNCHANGED <<now, RATE_LIMIT, recent, denied, last, config, stores, jar>>

\* timestamps = [t for t in timestamps if ...]; if len(timestamps) >=
\* RATE_LIMIT_COUNT: raise HTTPException(429)
task_prune(t) ==
    LET me_ == tasks[t]
        kept == SelectSeq(me_.timestamps, LAMBDA x : InWindow(x, me_.now))
    IN
    /\ me_.pc = "read"
    /\ Runnable(t)
    /\ IF rate_limit_exceeded(kept)
       THEN /\ tasks' = [tasks EXCEPT ![t] = IdleTask]
            /\ last' = [NoRequest EXCEPT
                          !.op = "check_rate_limit", !.ip = me_.ip,
                          !.at = me_.now, !.status = 429,
                          !.pre = RATE_LIMIT,
                          !.deniedBefore = denied[me_.ip]]
            /\ denied' = [denied EXCEPT ![me_.ip] = Min(@ + 1, MaxDenied)]
       ELSE /\ tasks' = [tasks EXCEPT ![t] =
                           [@ EXCEPT !.pc = "checked", !.timestamps = kept]]
            /\ UNCHANGED <<last, denied>>
    /\ UNCHANGED <<now, RATE_LIMIT, recent, config, stores, jar>>

\* timestamps.append(now); RATE_LIMIT[ip] = timestamps
task_store(t) ==
    LET me_ == tasks[t]
    IN
    /\ me_.pc = "checked"
    /\ Runnable(t)
    /\ RATE_LIMIT' = rate_limit_store(RATE_LIMIT, me_.ip,
                                      Append(me_.timestamps, me_.now))
    /\ tasks' = [tasks EXCEPT ![t] = IdleTask]
    /\ last' = [NoRequest EXCEPT
                  !.op = "check_rate_limit", !.ip = me_.ip,
                  !.at = me_.now, !.status = 200,
                  !.pre = RATE_LIMIT,
                  !.deniedBefore = denied[me_.ip]]
    /\ recent' = [recent EXCEPT
                    ![me_.ip] = LastN(Append(@, me_.now), Remembered)]
    /\ denied' = [denied EXCEPT ![me_.ip] = 0]
    /\ UNCHANGED <<now, config, stores, jar>>

\* ------------------------------------------------------------------ clients
\* Time passes to a later one of the given instants.
Pass(instants) ==
    /\ \E t \in instants : t > now /\ now' = t
    /\ UNCHANGED <<RATE_LIMIT, recent, denied, tasks, last, config, stores, jar>>

\* The client keeps what the last response gave it: Set-Cookie replaces the
\* cookie of that name, a deleted cookie is dropped, a token of a legacy body
\* is kept for the Authorization header. A client is free not to.
Keep ==
    /\ last.status = 200
    /\ last.setcookie # {} \/ last.delcookie # {} \/ Truthy(last.token)
    /\ jar' = [access_token |->
                  IF "access_token" \in last.setcookie THEN last.access
                  ELSE IF "access_token" \in last.delcookie THEN NoToken
                  ELSE jar.access_token,
               refresh_token |->
                  IF "refresh_token" \in last.setcookie THEN last.refresh
                  ELSE IF "refresh_token" \in last.delcookie THEN NoToken
                  ELSE jar.refresh_token,
               bearer |-> IF Truthy(last.token) THEN last.token ELSE jar.bearer]
    /\ UNCHANGED <<now, RATE_LIMIT, recent, denied, tasks, last, config, stores>>

Held == {jar.access_token, jar.refresh_token, jar.bearer} \ {NoToken}

\* What a client can put in a header or a cookie.
Headers == {NoHeader, BearerEmpty, Basic}
             \cup {Bearer(t) : t \in Held \cup {Garbage}}
             \cup {Bearer(Forged(t)) : t \in Held}
Cookies == {NoToken, Garbage} \cup Held

\* Two requests of one address in the server at a time, with the clock moving
\* between any two statements.
TaskInstants == {1, Window - 1, Window, Window + 1}

NextTasks ==
    \/ Pass(TaskInstants)
    \/ \E t \in Tasks, ip \in OneIP : arrive(t, ip)
    \/ \E t \in Tasks : task_read(t)
    \/ \E t \in Tasks : task_prune(t)
    \/ \E t \in Tasks : task_store(t)

SpecTasks == Init /\ [][NextTasks]_vars

\* ------------------------------------------------------------ auth-service
Request(op, ip) ==
    [NoRequest EXCEPT !.op = op, !.ip = ip, !.at = now, !.pre = RATE_LIMIT]

\* The rate-limited prefix of register and login: check_rate_limit raised.
RateLimited(op, ip, username, password) ==
    /\ check_rate_limit_raises(ip, now, RATE_LIMIT)
    /\ RATE_LIMIT' = check_rate_limit_table(ip, now, RATE_LIMIT)
    /\ last' = [Request(op, ip) EXCEPT
                  !.username = username, !.password = password,
                  !.status = 429, !.detail = "Too many requests"]
    /\ UNCHANGED <<now, config, stores>>

\* ... or let the request through, recording the attempt.
RatePassed(ip) ==
    /\ ~check_rate_limit_raises(ip, now, RATE_LIMIT)
    /\ RATE_LIMIT' = check_rate_limit_table(ip, now, RATE_LIMIT)

\* POST /register
register(ip, username, password, salt) ==
    /\ \/ RateLimited("register", ip, username, password)
       \/ /\ RatePassed(ip)
          /\ IF username \in DOMAIN user_store \/ username \in DOMAIN users
             THEN /\ last' = [Request("register", ip) EXCEPT
                                !.username = username, !.password = password,
                                !.consulted = TRUE,
                                !.status = 400, !.detail = "User already exists"]
                  /\ UNCHANGED stores
             ELSE /\ user_store' =
                        Put(user_store, username,
                            [id |-> next_id, username |-> username,
                             password_hash |-> hash_password(password, salt)])
                  /\ next_id' = next_id + 1
                  /\ users' = users
                  /\ last' = [Request("register", ip) EXCEPT
                                !.username = username, !.password = password,
                                !.consulted = TRUE,
                                !.status = 200,
                                !.detail = "User registered successfully"]
          /\ UNCHANGED <<now, config>>
    /\ UNCHANGED <<recent, denied, tasks, jar>>

\* POST /login. lag1 and lag2 are the ticks that pass between the utcnow()
\* reads of the two create_token calls.
login(ip, username, password, lag1, lag2) ==
    /\ \/ RateLimited("login", ip, username, password)
       \/ /\ RatePassed(ip)
          /\ LET user == Get(user_store, username, NoUser)
                 req  == [Request("login", ip) EXCEPT
                            !.username = username, !.password = password,
                            !.consulted = TRUE]
             IN
             IF username \in DOMAIN user_store
                /\ verify_password(password, user.password_hash)
             THEN LET data == [sub |-> user.username, uid |-> user.id]
                      t2 == now + lag1
                      t3 == now + lag1 + lag2
                  IN last' = [req EXCEPT
                        !.status = 200,
                        !.access = create_token(data,
                                      Minutes(LOGIN_ACCESS_MINUTES), FALSE,
                                      now, t2),
                        !.refresh = create_token(data,
                                      Days(LOGIN_REFRESH_DAYS), TRUE, t2, t3),
                        !.setcookie = {"access_token", "refresh_token"}]
             ELSE IF username \in DOMAIN users /\ users[username] = password
             THEN last' = [req EXCEPT
                        !.status = 200,
                        !.token = legacy_token([sub |-> username, uid |-> 0],
                                               now, now + lag1)]
             ELSE last' = [req EXCEPT
                             !.status = 401, !.detail = "Invalid credentials"]
          /\ UNCHANGED <<now, config, stores>>
    /\ UNCHANGED <<recent, denied, tasks, jar>>

refresh_user_missing_ignored(username) == FALSE

refresh_user_missing_after_logout(username) ==
    username \notin DOMAIN user_store \/ last.op = "logout"

\* user = user_store.get(payload['sub']); if not user: raise 401
refresh_user_missing(username) == username \notin DOMAIN user_store

\* POST /refresh
refresh(header, cookie, rcookie, lag) ==
    LET token == IF Truthy(rcookie) THEN rcookie
                 ELSE get_token_from_request(header, cookie)
        req == [Request("refresh", "") EXCEPT
                  !.header = header, !.cookie = cookie, !.rcookie = rcookie,
                  !.after = last.op]
        err == verify_token_error(token, TRUE, now)
    IN
    /\ last' =
         IF ~Truthy(token)
         THEN [req EXCEPT !.status = 401,
                          !.detail = "No refresh token provided"]
         ELSE IF err # "none"
         THEN [req EXCEPT !.status = 401, !.detail = "Invalid token",
                          !.error = err]
         ELSE IF refresh_user_missing(token.sub)
         THEN [req EXCEPT !.status = 401, !.detail = "User not found",
                          !.consulted = TRUE]
         ELSE LET user == Get(user_store, token.sub, NoUser)
              IN [req EXCEPT
                    !.status = 200, !.consulted = TRUE,
                    !.access = create_token(
                                  [sub |-> user.username, uid |-> user.id],
                                  Minutes(REFRESH_ACCESS_MINUTES), FALSE,
                                  now, now + lag),
                    !.setcookie = {"access_token"}]
    /\ UNCHANGED <<now, RATE_LIMIT, recent, denied, tasks, config, stores, jar>>

\* GET /me, through Depends(get_current_user)
me(header, cookie) ==
    LET token == get_token_from_request(header, cookie)
        req == [Request("me", "") EXCEPT !.header = header, !.cookie = cookie]
        err == verify_token_error(token, FALSE, now)
    IN
    /\ last' = IF ~Truthy(token)
               THEN [req EXCEPT !.status = 401, !.detail = "Not authenticated"]
               ELSE IF err # "none"
               THEN [req EXCEPT !.status = 401, !.detail = "Invalid token",
                                !.error = err]
               ELSE [req EXCEPT !.status = 200, !.user = token]
    /\ UNCHANGED <<now, RATE_LIMIT, recent, denied, tasks, config, stores, jar>>

\* POST /logout
logout ==
    /\ last' = [Request("logout", "") EXCEPT
                  !.status = 200, !.detail = "Logged out successfully",
                  !.delcookie = {"access_token", "refresh_token"}]
    /\ UNCHANGED <<now, RATE_LIMIT, recent, denied, tasks, config, stores, jar>>

\* POST /auth/login: no check_rate_limit; ip is the caller's address, which
\* the handler never looks at.
legacy_login(ip, username, password, lag) ==
    LET req == [Request("legacy_login", ip) EXCEPT
                  !.username = username, !.password = password,
                  !.consulted = TRUE]
    IN
    /\ last' =
         IF ~(username \in DOMAIN users /\ users[username] = password)
         THEN [req EXCEPT !.status = 401, !.detail = "Invalid credentials"]
         ELSE [req EXCEPT
                 !.status = 200,
                 !.token = legacy_token([sub |-> username, uid |-> 0],
                                        now, now + lag)]
    /\ UNCHANGED <<now, RATE_LIMIT, recent, denied, tasks, config, stores, jar>>

\* POST /auth/register
legacy_register(ip, username, password, lag) ==
    LET req == [Request("legacy_register", ip) EXCEPT
                  !.username = username, !.password = password,
                  !.consulted = TRUE]
    IN
    /\ IF username \in DOMAIN users
       THEN /\ last' = [req EXCEPT !.status = 400,
                                   !.detail = "User already exists"]
            /\ users' = users
       ELSE /\ users' = Put(users, username, password)
            /\ last' = [req EXCEPT
                          !.status = 200,
                          !.token = legacy_token([sub |-> username, uid |-> 0],
                                                 now, now + lag)]
    /\ UNCHANGED <<now, RATE_LIMIT, recent, denied, tasks, config, user_store,
                   next_id, jar>>

\* The process is started again: the module body runs anew, so the in-memory
\* stores and the rate-limit table are back at their initial values. The key
\* files and the environment are those of the deployment, and the clients
\* still hold what they held.
restart ==
    /\ RATE_LIMIT' = EmptyDict
    /\ users' = [u \in {"admin"} |-> "password"]
    /\ user_store' = [u \in {} |-> NoUser]
    /\ next_id' = 1
    /\ last' = [NoRequest EXCEPT !.op = "restart", !.at = now]
    /\ UNCHANGED <<now, recent, denied, tasks, config, jar>>

\* ------------------------------------------------ consumer services: the gate
\* The public key the consumer services load: auth-service/keys/public.pem.
GateKey == "rsa-pair"

\* PyJWT's exp check. Releases differ at the second of expiry: the later ones
\* raise when exp <= now (now with its fraction), the earlier ones when
\* exp < the whole seconds of now. `strict` says which one is installed.
pyjwt_expired(exp, n, strict) ==
    IF strict THEN exp * TicksPerSecond <= n ELSE exp < Seconds(n)

\* jwt.decode(token, self.public_key, algorithms=['RS256']): the PyJWTError
\* it raises, or "none".
pyjwt_decode_error(token, n, strict) ==
    IF token.form # "jwt" THEN "malformed"
    ELSE IF token.alg # "RS256" THEN "algorithm"
    ELSE IF token.key # GateKey THEN "signature"
    ELSE IF pyjwt_expired(token.exp, n, strict) THEN "expired"
    ELSE "none"

gate_candidate_cookie_first(header, cookie) ==
    IF Truthy(cookie) THEN cookie ELSE header.token

\* AuthMiddleware.dispatch, token extraction: the bearer header, and the
\* access_token cookie when that gave nothing.
gate_candidate(header, cookie) ==
    IF header.scheme = "bearer" /\ Truthy(header.token)
    THEN header.token ELSE cookie

gate_rejects_downgrading(token, n, strict) == FALSE

\* except jwt.PyJWTError: return JSONResponse(status_code=401, ...)
gate_rejects(token, n, strict) == pyjwt_decode_error(token, n, strict) # "none"

route_status_open(route, user) == 200

\* shared get_current_user: 401 unless request.state.user is set.
route_status(route, user) ==
    IF route = "protected" /\ ~Truthy(user) THEN 401 ELSE 200

Routes == {"public", "protected"}

\* A request to a consumer service behind AuthMiddleware.
gate(header, cookie, route, strict) ==
    LET token == gate_candidate(header, cookie)
        req == [Request("gate", "") EXCEPT
                  !.header = header, !.cookie = cookie, !.route = route]
    IN
    /\ last' =
         IF Truthy(token) /\ gate_rejects(token, now, strict)
         THEN [req EXCEPT !.status = 401, !.detail = "Invalid token",
                          !.error = pyjwt_decode_error(token, now, strict)]
         ELSE LET user == IF Truthy(token)
                             /\ pyjwt_decode_error(token, now, strict) = "none"
                          THEN token ELSE NoToken
              IN [req EXCEPT
                    !.handled = TRUE, !.user = user,
                    !.status = route_status(route, user),
                    !.detail = IF route_status(route, user) = 401
                               THEN "Not authenticated" ELSE ""]
    /\ UNCHANGED <<now, RATE_LIMIT, recent, denied, tasks, config, stores, jar>>

\* ------------------------------------------------------------ specifications
\* The credential endpoints, with the instants around one rate-limit window.
LoginInstants == {Window - 1, Window}

InitLogin == Init /\ ALGORITHM = "RS256"

NextLogin ==
    \/ Pass(LoginInstants)
    \/ \E ip \in OneIP, u \in Usernames, p \in Passwords, s \in Salts :
          register(ip, u, p, s)
    \/ \E ip \in OneIP, u \in Usernames, p \in Passwords :
          login(ip, u, p, 0, 0)
    \/ \E ip \in OneIP, u \in Usernames, p \in Passwords :
          legacy_login(ip, u, p, 0)
    \/ \E ip \in OneIP, u \in Usernames, p \in Passwords :
          legacy_register(ip, u, p, 0)

SpecLogin == InitLogin /\ [][NextLogin]_vars

\* A session: a client registers, logs in, keeps its tokens and presents them
\* to the auth-service, at once, after the access token's expiry and after
\* the refresh token's.
SessionInstants ==
    {Minutes(LOGIN_ACCESS_MINUTES) + TicksPerSecond,
     Days(LOGIN_REFRESH_DAYS) + TicksPerSecond}

InitSession == Init /\ ~jwt_utils_create_token

NextSession ==
    \/ Pass(SessionInstants)
    \/ \E ip \in OneIP : register(ip, "alice", "correct", "salt1")
    \/ \E ip \in OneIP, p \in Passwords : login(ip, "alice", p, 0, 0)
    \/ Keep
    \/ \E h \in Headers : refresh(h, NoToken, NoToken, 0)
    \/ \E c \in Cookies : refresh(NoHeader, c, NoToken, 0)
    \/ \E r \in Cookies : refresh(NoHeader, NoToken, r, 0)
    \/ \E h \in Headers : me(h, NoToken)
    \/ \E c \in Cookies : me(NoHeader, c)
    \/ logout
    \/ restart

Spec == InitSession /\ [][NextSession]_vars

\* The gate: a client logs in at the auth-service, keeps its tokens and
\* presents them to a consumer service, before, in and after the access
\* token's second of expiry.
GateInstants ==
    {Minutes(LOGIN_ACCESS_MINUTES),
     Minutes(LOGIN_ACCESS_MINUTES) + TicksPerSecond}

\* The deployment the gate is built for: the RSA key files are in place.
InitGate == Init /\ ALGORITHM = "RS256" /\ ~jwt_utils_create_token

\* The requests tried on the gate: one token in the header or in the cookie,
\* and every pairing of a kept or malformed token in each.
GateRequests ==
    {<<h, NoToken>> : h \in Headers}
      \cup {<<h, c>> : h \in {NoHeader, BearerEmpty}, c \in Cookies}
      \cup {<<Bearer(t), c>> : t \in Held \cup {Garbage},
                               c \in Held \cup {Garbage}}

NextGate ==
    \/ Pass(GateInstants)
    \/ \E ip \in OneIP : register(ip, "alice", "correct", "salt1")
    \/ \E ip \in OneIP : login(ip, "alice", "correct", 0, 0)
    \/ Keep
    \/ \E q \in GateRequests, r \in Routes, strict \in BOOLEAN :
          gate(q[1], q[2], r, strict)

SpecGate == InitGate /\ [][NextGate]_vars

\* The two extractions side by side: the same requests, with a token in the
\* header, in the cookie or in both, sent to a consumer service and to GET /me.
NextCarriers ==
    \/ Pass(GateInstants)
    \/ \E ip \in OneIP : register(ip, "alice", "correct", "salt1")
    \/ \E ip \in OneIP : login(ip, "alice", "correct", 0, 0)
    \/ Keep
    \/ \E q \in GateRequests, r \in Routes, strict \in BOOLEAN :
          gate(q[1], q[2], r, strict)
    \/ \E q \in GateRequests : me(q[1], q[2])

SpecCarriers == InitGate /\ [][NextCarriers]_vars

\* Every issuing endpoint, in every configuration, with a client that keeps
\* what it is given and shows it to GET /me, at once and in the last instant
\* before the earliest expiry.
IssuerInstants == {Minutes(LOGIN_ACCESS_MINUTES) - 1}

NextIssuer ==
    \/ Pass(IssuerInstants)
    \/ \E ip \in OneIP : register(ip, "alice", "correct", "salt1")
    \/ \E ip \in OneIP : login(ip, "alice", "correct", 0, 0)
    \/ \E ip \in OneIP : login(ip, "admin", "password", 0, 0)
    \/ \E ip \in OneIP : legacy_login(ip, "admin", "password", 0)
    \/ \E ip \in OneIP : legacy_register(ip, "alice", "password", 0)
    \/ \E r \in Held : refresh(NoHeader, NoToken, r, 0)
    \/ Keep
    \/ \E t \in Held : me(Bearer(t), NoToken)
    \/ \E c \in Held : me(NoHeader, c)

SpecIssuer == Init /\ [][NextIssuer]_vars

\* The issuer alone: create_token and verify_token called directly, with the
\* clock stepping through the instants around each expiry.
TokenTTLs == {Minutes(LOGIN_ACCESS_MINUTES), DefaultExpires,
              Days(LOGIN_REFRESH_DAYS)}

TokenInstants ==
    UNION {{ttl - 1, ttl, ttl + 1, ttl + 2,
            ttl + TicksPerSecond, ttl + TicksPerSecond + 1} : ttl \in TokenTTLs}
      \cup 1..MaxFine

Subjects == {[sub |-> "alice", uid |-> 1], [sub |-> "admin", uid |-> 0]}

\* token = create_token(data, expires, refresh); the caller keeps it.
Mint(data, expires, rf, lag) ==
    /\ now <= MaxFine
    /\ LET tok == create_token(data, expires, rf, now, now + lag)
       IN /\ last' = [Request("create_token", "") EXCEPT
                        !.username = data.sub, !.uid = data.uid,
                        !.ttl = expires, !.status = 200, !.token = tok]
          /\ jar' = [jar EXCEPT !.bearer = tok]
    /\ UNCHANGED <<now, RATE_LIMIT, recent, denied, tasks, config, stores>>

\* payload = verify_token(token, refresh)
Verify(token, rf) ==
    LET err == verify_token_error(token, rf, now)
        req == [Request("verify_token", "") EXCEPT
                  !.header = Bearer(token),
                  !.route = IF rf THEN "refresh" ELSE "any"]
    IN
    /\ last' = IF err # "none"
               THEN [req EXCEPT !.status = 401, !.detail = "Invalid token",
                                !.error = err]
               ELSE [req EXCEPT !.status = 200, !.user = token]
    /\ UNCHANGED <<now, RATE_LIMIT, recent, denied, tasks, config, stores, jar>>

NextToken ==
    \/ Pass(TokenInstants)
    \/ \E d \in Subjects, e \in TokenTTLs, r \in BOOLEAN : Mint(d, e, r, 0)
    \/ \E t \in Held \cup {Forged(x) : x \in Held} \cup {Garbage},
          r \in BOOLEAN : Verify(t, r)

SpecToken == InitSession /\ [][NextToken]_vars

\* ------------------------------------------------------------------ claims
IsRateCall == last.op = "check_rate_limit"

\* The timestamps of s whose age at time n is less than the window, in order.
RECURSIVE Younger(_, _)
Younger(s, n) ==
    IF s = <<>> THEN <<>>
    ELSE IF n - Head(s) < Window
         THEN <<Head(s)>> \o Younger(Tail(s), n)
         ELSE Younger(Tail(s), n)

\* How many of the allowed calls of ip in `recent` lie less than a window
\* before time n.
AllowedInWindow(ip, n) ==
    Cardinality({i \in DOMAIN recent[ip] : n - recent[ip][i] < Window})

\* C4: a check_rate_limit(ip) call counts the recorded timestamps of ip still
\* inside the window; with RATE_LIMIT_COUNT or more of them it answers 429 and
\* the table is left as it was (no timestamp is gained); with fewer it allows
\* and ip's record becomes the in-window timestamps followed by the call time.
C4_RateLimiterStep ==
    IsRateCall =>
        LET old  == Get(last.pre, last.ip, <<>>)
            kept == Younger(old, last.at)
        IN  IF Len(kept) >= RATE_LIMIT_COUNT
            THEN last.status = 429 /\ RATE_LIMIT = last.pre
            ELSE /\ last.status = 200
                 /\ last.ip \in DOMAIN RATE_LIMIT
                 /\ RATE_LIMIT[last.ip] = kept \o <<last.at>>

\* C4 witness: a call that pruned at least one stale timestamp and was allowed.
C4_Witness_PrunedAndAllowed ==
    /\ IsRateCall
    /\ last.status = 200
    /\ Get(last.pre, last.ip, <<>>) # <<>>
    /\ Len(Younger(Get(last.pre, last.ip, <<>>), last.at))
         < Len(Get(last.pre, last.ip, <<>>))

\* C5: for one client key, any RATE_LIMIT_COUNT + 1 allowed calls span at least
\* a full window (never more than N allowed inside a span shorter than W), and
\* a call is rejected only when N allowed calls lie less than a window back
\* (so the first N calls inside a window are all allowed).
C5_SlidingWindowBound ==
    /\ \A ip \in IPs :
          Len(recent[ip]) = Remembered => recent[ip][Remembered] - recent[ip][1] >= Window
    /\ (IsRateCall /\ last.status = 429) =>
          AllowedInWindow(last.ip, last.at) >= RATE_LIMIT_COUNT
    /\ (IsRateCall /\ last.status = 200) =>
          AllowedInWindow(last.ip, last.at) <= RATE_LIMIT_COUNT

\* C5 witness: the sixth call inside the window of five allowed ones is
\* rejected.
C5_Witness_SixthRejected ==
    /\ IsRateCall
    /\ last.status = 429
    /\ Len(recent[last.ip]) = RATE_LIMIT_COUNT
    /\ last.at - recent[last.ip][1] = Window - 1

\* C6: a call made once a full window has passed since every allowed attempt
\* of its key is allowed, however many rejected calls came in between: a
\* rejection implies an allowed attempt less than a window old.
C6_RecoveryAfterWindow ==
    (IsRateCall /\ last.status = 429) =>
        \E i \in DOMAIN recent[last.ip] : last.at - recent[last.ip][i] < Window

\* C6 witness: a key that was rejected MaxDenied times or more is allowed again,
\* all its earlier allowed attempts being a window or more old.
C6_Witness_AllowedAfterRejections ==
    /\ IsRateCall
    /\ last.status = 200
    /\ last.deniedBefore >= MaxDenied
    /\ Len(recent[last.ip]) = Remembered
    /\ last.at - recent[last.ip][RATE_LIMIT_COUNT] >= Window

\* C7: a check_rate_limit call for one address, allowed or rejected, leaves the
\* record of every other address as it was.
C7_KeyIndependence ==
    IsRateCall =>
        \A b \in IPs \ {last.ip} :
            /\ (b \in DOMAIN RATE_LIMIT) = (b \in DOMAIN last.pre)
            /\ Get(RATE_LIMIT, b, <<>>) = Get(last.pre, b, <<>>)

\* C7 witness: address A is rejected while address B, with attempts on record,
\* keeps them.
C7_Witness_OtherKeyUntouched ==
    /\ IsRateCall
    /\ last.status = 429
    /\ \E b \in IPs \ {last.ip} :
          /\ b \in DOMAIN RATE_LIMIT
          /\ Len(RATE_LIMIT[b]) >= 1
          /\ Len(RATE_LIMIT[b]) < RATE_LIMIT_COUNT

\* The token a request to a consumer service offers: the bearer header's when
\* there is one, else the access_token cookie.
Offered == IF last.header.scheme = "bearer" /\ last.header.token # NoToken
           THEN last.header.token ELSE last.cookie

\* Signed by the key pair the gate trusts, under RS256.
SignedForGate(tok) == tok.form = "jwt" /\ tok.alg = "RS256" /\ tok.key = GateKey

\* C1: a request to the gate whose candidate token is malformed, signed by
\* another key, or past its expiry second gets 401 and the handler is not
\* invoked; and no request that carries a candidate ever reaches the handler
\* with the anonymous identity.
C1_GateShortCircuit ==
    (last.op = "gate" /\ Offered # NoToken) =>
        /\ (Offered.form # "jwt" \/ Offered.key # GateKey
              \/ Seconds(last.at) > Offered.exp)
             => (last.status = 401 /\ ~last.handled /\ last.user = NoToken)
        /\ last.handled => last.user = Offered

\* C1 witness: an expired, validly signed access token is turned away.
C1_Witness_ExpiredRejected ==
    /\ last.op = "gate"
    /\ SignedForGate(Offered)
    /\ Offered.typ # "refresh"
    /\ Seconds(last.at) > Offered.exp
    /\ last.status = 401
    /\ ~last.handled

\* The token a request to the auth-service presents to /refresh and to /me.
PresentedToRefresh ==
    IF last.rcookie # NoToken THEN last.rcookie
    ELSE IF last.header.scheme = "bearer" THEN last.header.token
    ELSE last.cookie

PresentedToMe ==
    IF last.header.scheme = "bearer" THEN last.header.token ELSE last.cookie

\* Minted by this service's create_token.
MintedHere(tok) ==
    tok.form = "jwt" /\ tok.alg = ALGORITHM /\ tok.key = PRIVATE_KEY

\* C2: kind separation in verify_token, both ways: an access token offered
\* where the refresh kind is required (POST /refresh) is rejected, and a
\* refresh token offered where an access token is required (GET /me) is
\* rejected.
C2_TokenKindSeparation ==
    /\ (last.op = "refresh" /\ MintedHere(PresentedToRefresh)
          /\ PresentedToRefresh.typ # "refresh") => last.status = 401
    /\ (last.op = "me" /\ MintedHere(PresentedToMe)
          /\ PresentedToMe.typ = "refresh") => last.status = 401

\* C3: a validly signed, unexpired refresh token offered to the gate is
\* rejected and never attached to request.state.user.
C3_GateRequiresAccessKind ==
    (last.op = "gate" /\ SignedForGate(Offered) /\ Offered.typ = "refresh"
       /\ last.at < Offered.exp * TicksPerSecond)
      => (last.status = 401 /\ last.user # Offered)

\* The caller's address had RATE_LIMIT_COUNT attempts inside the window when
\* the request arrived.
Exhausted ==
    Len(Younger(Get(last.pre, last.ip, <<>>), last.at)) >= RATE_LIMIT_COUNT

\* C8: a POST /login from an address with N attempts in the window ends 429,
\* with no look-up in user_store or users, no token and no cookie, whatever
\* the credentials.
C8_LoginRateLimitFirst ==
    (last.op = "login" /\ Exhausted) =>
        /\ last.status = 429
        /\ ~last.consulted
        /\ last.access = NoToken /\ last.refresh = NoToken
        /\ last.token = NoToken
        /\ last.setcookie = {}

\* C8 witness: a login with the right password of a registered user is
\* turned away by the rate limiter.
C8_Witness_CorrectPasswordLimited ==
    /\ last.op = "login"
    /\ last.status = 429
    /\ last.username \in DOMAIN user_store
    /\ user_store[last.username].password_hash.pw = last.password

\* C9: on every endpoint that evaluates a username/password pair, an address
\* that has used up its N attempts gets no further pair evaluated.
C9_EveryLoginEndpointGuarded ==
    (last.op \in {"login", "legacy_login"} /\ Exhausted) => ~last.consulted

\* The token handed to a direct verify_token call.
Verified == last.header.token

\* C10 as stated: a minted token verifies, with the sub and uid it was minted
\* for, at every time before issue time + ttl, and is rejected as expired at
\* every time after it.
C10_RoundTripAsStated ==
    /\ last.op = "create_token" =>
          (last.token.sub = last.username /\ last.token.uid = last.uid)
    /\ (last.op = "verify_token" /\ Verified \in Held
          /\ last.route = "any") =>
          /\ last.at < Verified.born + Verified.ttl =>
                /\ last.status = 200
                /\ last.user.sub = Verified.sub
                /\ last.user.uid = Verified.uid
          /\ last.at > Verified.born + Verified.ttl =>
                (last.status = 401 /\ last.error = "expired")

\* C10, amended: a minted token verifies, with the sub and uid it was minted
\* for, at every time up to the end of the whole second in which issue time +
\* ttl falls (so at every time before issue time + ttl), and is rejected as
\* expired at every time in a later whole second.
C10_RoundTrip ==
    /\ last.op = "create_token" =>
          (last.token.sub = last.username /\ last.token.uid = last.uid)
    /\ (last.op = "verify_token" /\ Verified \in Held
          /\ last.route = "any") =>
          /\ (last.at < Verified.born + Verified.ttl
                \/ Seconds(last.at) <= Seconds(Verified.born + Verified.ttl)) =>
                /\ last.status = 200
                /\ last.user.sub = Verified.sub
                /\ last.user.uid = Verified.uid
          /\ Seconds(last.at) > Seconds(Verified.born + Verified.ttl) =>
                (last.status = 401 /\ last.error = "expired")

\* C10 witness: a token minted inside a second is still accepted in the last
\* instant before issue time + ttl, in the second in which it expires.
C10_Witness_AcceptedUntilExpiry ==
    /\ last.op = "verify_token"
    /\ Verified \in Held
    /\ last.route = "any"
    /\ last.at = Verified.born + Verified.ttl - 1
    /\ Seconds(last.at) = Verified.exp
    /\ Verified.born % TicksPerSecond # 0
    /\ last.status = 200

C10_Witness_RejectedAfterExpiry ==
    /\ last.op = "verify_token"
    /\ Verified \in Held
    /\ last.route = "any"
    /\ Seconds(last.at) > Verified.exp
    /\ last.status = 401
    /\ last.error = "expired"

\* C11: POST /refresh answers 200 only for a token of this service that is of
\* kind refresh, not past its expiry second, and whose subject is in
\* user_store; the response then carries one access token (no type claim) for
\* the stored user's username and id, with the 30 minute lifetime, set as the
\* access_token cookie and nothing else: no refresh token in the body, no
\* refresh_token cookie.
C11_RefreshResponse ==
    (last.op = "refresh" /\ last.status = 200) =>
        /\ MintedHere(PresentedToRefresh)
        /\ PresentedToRefresh.typ = "refresh"
        /\ Seconds(last.at) <= PresentedToRefresh.exp
        /\ PresentedToRefresh.sub \in DOMAIN user_store
        /\ MintedHere(last.access)
        /\ last.access.typ # "refresh"
        /\ last.access.sub = PresentedToRefresh.sub
        /\ last.access.uid = user_store[PresentedToRefresh.sub].id
        /\ last.access.born = last.at
        /\ last.access.ttl = Minutes(REFRESH_ACCESS_MINUTES)
        /\ last.refresh = NoToken
        /\ last.token = NoToken
        /\ last.setcookie = {"access_token"}
        /\ last.delcookie = {}

\* ... and a POST /refresh, whatever its outcome, leaves users, user_store
\* and next_id as they were.
C11_RefreshProtocol ==
    /\ []C11_RefreshResponse
    /\ [][(last'.op = "refresh" /\ last' # last) => stores' = stores]_vars

\* C11 witness: a refresh token kept from a login buys a new access token.
C11_Witness_Refreshed ==
    /\ last.op = "refresh"
    /\ last.status = 200
    /\ PresentedToRefresh = jar.refresh_token
    /\ last.access.sub = "alice"
    /\ last.access.uid = 1

\* C12: POST /refresh with a refresh token of this service, not expired, whose
\* subject is not in user_store answers 401 'User not found', with no token in
\* the body and no cookie set.
C12_RefreshUnknownSubject ==
    (last.op = "refresh" /\ MintedHere(PresentedToRefresh)
       /\ PresentedToRefresh.typ = "refresh"
       /\ Seconds(last.at) <= PresentedToRefresh.exp
       /\ PresentedToRefresh.sub \notin DOMAIN user_store) =>
        /\ last.status = 401
        /\ last.detail = "User not found"
        /\ last.access = NoToken /\ last.refresh = NoToken
        /\ last.token = NoToken
        /\ last.setcookie = {}

\* C12 witness: the service was restarted after the login, its user_store is
\* empty again, and the client's refresh token is turned away.
C12_Witness_SubjectGone ==
    /\ last.op = "refresh"
    /\ PresentedToRefresh = jar.refresh_token
    /\ PresentedToRefresh.typ = "refresh"
    /\ Seconds(last.at) <= PresentedToRefresh.exp
    /\ PresentedToRefresh.sub \notin DOMAIN user_store
    /\ last.status = 401
    /\ last.consulted

\* C13: every POST /login answered 200 carries an access token for the
\* submitted username with the 30 minute lifetime and a refresh token of kind
\* refresh with the 7 day lifetime, both signed by this service and both set
\* as cookies.
C13_LoginReturnsTokenPair ==
    (last.op = "login" /\ last.status = 200) =>
        /\ MintedHere(last.access)
        /\ last.access.sub = last.username
        /\ last.access.typ # "refresh"
        /\ last.access.ttl = Minutes(LOGIN_ACCESS_MINUTES)
        /\ last.access.exp = Seconds(last.at + Minutes(LOGIN_ACCESS_MINUTES))
        /\ MintedHere(last.refresh)
        /\ last.refresh.sub = last.username
        /\ last.refresh.typ = "refresh"
        /\ last.refresh.ttl = Days(LOGIN_REFRESH_DAYS)
        /\ last.refresh.exp = Seconds(last.at + Days(LOGIN_REFRESH_DAYS))
        /\ last.setcookie = {"access_token", "refresh_token"}

\* The submitted pair matches a stored credential: the hash in user_store, or
\* the plaintext in users.
CredentialsMatch ==
    \/ /\ last.username \in DOMAIN user_store
       /\ user_store[last.username].password_hash.pw = last.password
    \/ /\ last.username \in DOMAIN users
       /\ users[last.username] = last.password

\* What a client sees of a response.
Response(r) ==
    [status |-> r.status, detail |-> r.detail, access |-> r.access,
     refresh |-> r.refresh, token |-> r.token, setcookie |-> r.setcookie,
     delcookie |-> r.delcookie]

\* C14: a POST /login that the rate limiter lets through and whose pair
\* matches no stored credential gets one and the same response, 401 'Invalid
\* credentials' with no token and no cookie, whether the username is unknown
\* or known with another password.
C14_UniformLoginFailure ==
    (last.op = "login" /\ last.status # 429 /\ ~CredentialsMatch) =>
        Response(last) =
            Response([NoRequest EXCEPT !.status = 401,
                                       !.detail = "Invalid credentials"])

\* C14 witness: a registered user's name with a wrong password is answered
\* like an unknown name.
C14_Witness_KnownNameWrongPassword ==
    /\ last.op = "login"
    /\ last.username \in DOMAIN user_store
    /\ ~CredentialsMatch
    /\ last.status = 401
    /\ last.detail = "Invalid credentials"

\* The other case of C14: a name in neither store.
C14_Witness_UnknownName ==
    /\ last.op = "login"
    /\ last.username \notin DOMAIN user_store \cup DOMAIN users
    /\ last.status = 401
    /\ last.detail = "Invalid credentials"

\* The endpoints that mint a token through create_token(token_data), with no
\* explicit lifetime.
DefaultLifetimeOps == {"login", "legacy_login", "legacy_register"}

\* C15: a token minted without an explicit lifetime expires 30 minutes after
\* its issue, like the access tokens of /login and /refresh.
C15_DefaultLifetimeThirtyMinutes ==
    (last.op \in DefaultLifetimeOps /\ Truthy(last.token)) =>
        /\ last.token.ttl = Minutes(LOGIN_ACCESS_MINUTES)
        /\ last.token.exp = Seconds(last.at + Minutes(LOGIN_ACCESS_MINUTES))

\* C16: a request to the gate that carries no token, neither in a bearer
\* header nor in the access_token cookie, always reaches the handler, with
\* request.state.user = None; a route that depends on get_current_user then
\* answers 401 'Not authenticated', any other route is served.
C16_GateAnonymous ==
    (last.op = "gate" /\ Offered = NoToken) =>
        /\ last.handled
        /\ last.user = NoToken
        /\ last.error = "none"
        /\ last.route = "protected" =>
              (last.status = 401 /\ last.detail = "Not authenticated")
        /\ last.route = "public" => last.status = 200

\* C16 witness: an anonymous request to the protected route is turned away by
\* the route, not by the gate.
C16_Witness_AnonymousProtected ==
    /\ last.op = "gate"
    /\ last.header = NoHeader
    /\ last.cookie = NoToken
    /\ last.route = "protected"
    /\ last.handled
    /\ last.status = 401

\* The other case of C16: an anonymous request to the public route is served.
C16_Witness_AnonymousPublic ==
    /\ last.op = "gate"
    /\ Offered = NoToken
    /\ last.route = "public"
    /\ last.handled
    /\ last.status = 200

\* The newest allowed call of ip.
LastAllowed(ip) == recent[ip][Len(recent[ip])]

\* C17: however the check_rate_limit calls of requests that are in the server
\* together are scheduled, the outcome is that of calls made one after the
\* other: no RATE_LIMIT_COUNT + 1 calls of a key are allowed inside one
\* window, and the record of a key holds the timestamp of every allowed call
\* that is less than a window older than the newest one (none is overwritten
\* by a call that read the record before it was stored).
C17_AsIfSerialized ==
    \A ip \in IPs :
        /\ Len(recent[ip]) = Remembered =>
              recent[ip][Remembered] - recent[ip][1] >= Window
        /\ recent[ip] # <<>> =>
              Get(RATE_LIMIT, ip, <<>>) = Younger(recent[ip], LastAllowed(ip))
        /\ Len(Get(RATE_LIMIT, ip, <<>>)) <= RATE_LIMIT_COUNT

\* C17 witness: a call that is about to record the last attempt its address
\* is entitled to, while a second request of the same address is already in
\* the server.
C17_Witness_TwoInFlight ==
    \E t \in Tasks, u \in Tasks :
        /\ t # u
        /\ tasks[t].pc = "checked"
        /\ Len(tasks[t].timestamps) = RATE_LIMIT_COUNT - 1
        /\ tasks[u].pc = "arrived"
        /\ tasks[u].ip = tasks[t].ip

\* C18: no username has a credential in both stores, and POST /auth/register
\* for a username that is in user_store is answered 400, as POST /register is
\* for a username in either store.
C18_IdentityUniqueness ==
    /\ DOMAIN users \cap DOMAIN user_store = {}
    /\ (last.op = "legacy_register" /\ last.username \in DOMAIN user_store)
          => last.status = 400

\* The request has a bearer header with a token in it.
HasBearerToken == last.header.scheme = "bearer" /\ last.header.token # NoToken

\* A token the gate accepts at the time of the request, whichever PyJWT is
\* installed / one it rejects, whichever is installed.
GateValid(tok) == SignedForGate(tok) /\ last.at < tok.exp * TicksPerSecond
GateInvalid(tok) == ~SignedForGate(tok) \/ Seconds(last.at) > tok.exp

\* A token verify_token accepts at the time of the request.
ServiceValid(tok) == MintedHere(tok) /\ Seconds(last.at) <= tok.exp

\* C19: at the gate and at the auth-service alike, a token in a bearer header
\* is the one that is verified, whatever the access_token cookie holds: the
\* request is rejected when that token is invalid even with a valid cookie,
\* and accepted as that token's user when it is valid even with an invalid
\* cookie. The cookie decides only when there is no bearer header.
C19_HeaderBeforeCookie ==
    /\ (last.op = "gate" /\ HasBearerToken) =>
          /\ GateInvalid(last.header.token) =>
                (last.status = 401 /\ ~last.handled)
          /\ GateValid(last.header.token) =>
                (last.status = 200 /\ last.user = last.header.token)
    /\ (last.op = "me" /\ HasBearerToken) =>
          /\ ~ServiceValid(last.header.token) => last.status = 401
          /\ ServiceValid(last.header.token) =>
                (last.status = 200 /\ last.user = last.header.token)
    /\ (last.op = "gate" /\ last.header.scheme # "bearer"
          /\ last.cookie # NoToken) =>
          /\ GateInvalid(last.cookie) => last.status = 401
          /\ GateValid(last.cookie) => last.user = last.cookie
    /\ (last.op = "me" /\ last.header.scheme # "bearer"
          /\ last.cookie # NoToken) =>
          (last.status = 200) = ServiceValid(last.cookie)

\* C19 witness: the gate rejects an invalid bearer token although the cookie
\* holds a valid access token.
C19_Witness_BadHeaderGoodCookie ==
    /\ last.op = "gate"
    /\ HasBearerToken
    /\ GateInvalid(last.header.token)
    /\ GateValid(last.cookie)
    /\ last.cookie.typ # "refresh"
    /\ last.status = 401

\* The other cases of C19: GET /me likewise, and a valid bearer token accepted
\* next to an invalid cookie, by the gate and by GET /me.
C19_Witness_MeBadHeaderGoodCookie ==
    /\ last.op = "me"
    /\ HasBearerToken
    /\ ~ServiceValid(last.header.token)
    /\ ServiceValid(last.cookie)
    /\ last.status = 401

C19_Witness_GoodHeaderBadCookie ==
    /\ last.op = "gate"
    /\ HasBearerToken
    /\ GateValid(last.header.token)
    /\ last.cookie = Garbage
    /\ last.status = 200

C19_Witness_MeGoodHeaderBadCookie ==
    /\ last.op = "me"
    /\ HasBearerToken
    /\ ServiceValid(last.header.token)
    /\ last.cookie = Garbage
    /\ last.status = 200

\* The timestamps of s whose age at time n is at most the window, in order.
RECURSIVE NotOlder(_, _)
NotOlder(s, n) ==
    IF s = <<>> THEN <<>>
    ELSE IF n - Head(s) <= Window
         THEN <<Head(s)>> \o NotOlder(Tail(s), n)
         ELSE NotOlder(Tail(s), n)

\* C20: the prune step drops only the timestamps older than the window: one
\* that is exactly a window old is kept and counted, so a call with
\* RATE_LIMIT_COUNT recorded attempts of age at most W is rejected, and an
\* allowed call leaves those of age at most W followed by its own time.
C20_PruneKeepsBoundary ==
    IsRateCall =>
        LET old  == Get(last.pre, last.ip, <<>>)
            kept == NotOlder(old, last.at)
        IN  IF Len(kept) >= RATE_LIMIT_COUNT
            THEN last.status = 429
            ELSE /\ last.status = 200
                 /\ RATE_LIMIT[last.ip] = kept \o <<last.at>>

\* C21: whatever requests the service has answered in the meantime (logout,
\* further logins and refreshes), a refresh token of this service presented
\* to POST /refresh before its expiry is accepted while its subject is in
\* user_store, and an access token presented to GET /me before its expiry is
\* accepted: nothing the service does takes an issued token out of use.
C21_NoRevocation ==
    /\ (last.op = "refresh" /\ MintedHere(PresentedToRefresh)
          /\ PresentedToRefresh.typ = "refresh"
          /\ last.at < PresentedToRefresh.born + PresentedToRefresh.ttl
          /\ PresentedToRefresh.sub \in DOMAIN user_store)
         => (last.status = 200 /\ last.access.sub = PresentedToRefresh.sub)
    /\ (last.op = "me" /\ MintedHere(PresentedToMe)
          /\ last.at < PresentedToMe.born + PresentedToMe.ttl)
         => (last.status = 200 /\ last.user = PresentedToMe)

\* C21 witness: the client's refresh token, minted by an earlier login, is
\* accepted by the request that follows a logout.
C21_Witness_AcceptedAfterLogout ==
    /\ last.op = "refresh"
    /\ last.after = "logout"
    /\ PresentedToRefresh = jar.refresh_token
    /\ PresentedToRefresh.typ = "refresh"
    /\ last.at > PresentedToRefresh.born
    /\ last.status = 200

\* ... and after it has already bought an access token once (no rotation).
C21_Witness_AcceptedAgain ==
    /\ last.op = "refresh"
    /\ last.after = "refresh"
    /\ PresentedToRefresh = jar.refresh_token
    /\ jar.access_token.born > PresentedToRefresh.born
    /\ last.status = 200

\* C22: a login, on POST /login or POST /auth/login, for a username that is
\* in user_store (registered through POST /register) succeeds only with the
\* password that was hashed at that registration, and the token is then for
\* that username.
C22_PasswordBinding ==
    (last.op \in {"login", "legacy_login"} /\ last.status = 200
       /\ last.username \in DOMAIN user_store) =>
        /\ last.password = user_store[last.username].password_hash.pw
        /\ last.access.sub = last.username \/ last.token.sub = last.username

\* C23: a token the client was handed by an issuing endpoint of this service
\* (/login on either path, /refresh, /auth/login, /auth/register) and shows
\* to GET /me before its expiry is accepted, in every configuration.
C23_IssuerSelfConsistency ==
    (last.op = "me" /\ PresentedToMe \in Held
       /\ last.at < PresentedToMe.born + PresentedToMe.ttl)
      => (last.status = 200 /\ last.user = PresentedToMe)

====
